---- MODULE Spec2Model ----
(***************************************************************************)
(* Model of the XLIFF analysis scripts                                     *)
(*   script/check_translation.py  (unit extraction + quality classifier)   *)
(*   script/extract_glossary.py   (unit extraction + glossary aligner)     *)
(*                                                                         *)
(* Representation                                                          *)
(*   - A Python str is a sequence of Unicode code points (naturals):       *)
(*     "a" = <<97>>, "**" = <<42, 42>>, U+30AB = <<12459>>.                *)
(*   - A parsed XML document (ElementTree) is the sequence of its elements *)
(*     in document order (pre-order); each element carries its depth, so   *)
(*     the children of element i are the following elements of depth       *)
(*     depth[i]+1 up to the next element of depth <= depth[i].             *)
(*     An ElementTree tag "{uri}name" is the pair (ns, name); ns = ""      *)
(*     is a tag without namespace.                                         *)
(*   - A Python float is an IEEE 754 binary64 value [m, e] (m * 2^e, m of  *)
(*     53 bits); its operations round the exact result to the nearest      *)
(*     float, ties to even.                                                *)
(***************************************************************************)
EXTENDS Integers, Sequences, FiniteSets, TLC

VARIABLES
    root,             \* the parsed document (sequence of elements, pre-order)
    min_ratio,        \* --min-ratio    (float)
    max_ratio,        \* --max-ratio    (float)
    ascii_threshold,  \* --ascii-ratio  (float)
    pc,               \* position of the running program
    units,            \* the yields iter_units has still to deliver
    seen,             \* the yields the running loop has received so far
    reports,          \* analyze: reports
    ratios,           \* analyze: ratios
    untranslated_count,
    ascii_heavy_count,
    ratio_flag_count,
    summary,          \* analyze: the returned Summary (NoSummary before)
    pair_counts,      \* build_glossary: (en, ja) -> Pair
    en_unmatched,     \* build_glossary: term -> set of ids
    ja_unmatched      \* build_glossary: term -> set of ids

vars == <<root, min_ratio, max_ratio, ascii_threshold, pc, units, seen, reports,
          ratios, untranslated_count, ascii_heavy_count, ratio_flag_count,
          summary, pair_counts, en_unmatched, ja_unmatched>>

-----------------------------------------------------------------------------
(* Bounds of the model *)

\* longest source / target text of the single-unit text documents
MaxLen == 2
\* longest source text of the markup documents (alphabet * / a)
MaxMarkupLen == 4
\* longest text of the length-ratio documents (alphabet a, space)
MaxRatioLen == 3
\* most units of a multi-unit flat document
MaxUnits == 3
\* most top-level items of a mixed-shape document
MaxItems == 2
\* most segments of a unit of a segmented document
MaxSegs == 2
\* longest source text of the source-token documents of the glossary
MaxTokLen == 4
\* longest target text of the target-token documents of the glossary
MaxJaLen == 3

-----------------------------------------------------------------------------
(* Generic helpers *)

Max(a, b) == IF a >= b THEN a ELSE b

Min(a, b) == IF a <= b THEN a ELSE b

\* all sequences over S of length <= n
StrUpTo(S, n) == UNION {[1..k -> S] : k \in 0..n}

RECURSIVE Concat(_)
Concat(ss) == IF ss = <<>> THEN <<>> ELSE ss[1] \o Concat(Tail(ss))

\* the increasing sequence of the elements of a finite set of integers
RECURSIVE SortedSeq(_)
SortedSeq(S) ==
    IF S = {} THEN <<>>
    ELSE LET m == CHOOSE x \in S : \A y \in S : x <= y
         IN <<m>> \o SortedSeq(S \ {m})

-----------------------------------------------------------------------------
(* Python float: IEEE 754 binary64, for the non-negative normal values and  *)
(* zero. A float is [m, e] with value m * 2^e; m is a natural number of     *)
(* exactly 53 bits, written as the sequence of its digits in base 2^15,     *)
(* lowest first; zero is [m |-> <<>>, e |-> 0]. Every operation computes    *)
(* the exact result and rounds it to the nearest float, ties to even.       *)

\* the base of the digits of a natural number
Base == 32768

\* log2 of Base
DigitBits == 15

\* the bits of the significand of a float
MantissaBits == 53

\* the natural number n as digits
RECURSIVE BigOf(_)
BigOf(n) == IF n = 0 THEN <<>> ELSE <<n % Base>> \o BigOf(n \div Base)

\* a without its leading zero digits
RECURSIVE BigTrim(_)
BigTrim(a) ==
    IF a # <<>> /\ a[Len(a)] = 0 THEN BigTrim(SubSeq(a, 1, Len(a) - 1)) ELSE a

\* a * c + carry, for c and carry below Base
RECURSIVE BigMulAdd(_, _, _)
BigMulAdd(a, c, carry) ==
    IF a = <<>> THEN (IF carry = 0 THEN <<>> ELSE <<carry>>)
    ELSE LET v == a[1] * c + carry
         IN <<v % Base>> \o BigMulAdd(Tail(a), c, v \div Base)

BigMul(a, c) == BigMulAdd(a, c, 0)

\* a + b + carry
RECURSIVE BigAddCarry(_, _, _)
BigAddCarry(a, b, carry) ==
    IF a = <<>> /\ b = <<>> THEN (IF carry = 0 THEN <<>> ELSE <<carry>>)
    ELSE LET v == (IF a = <<>> THEN 0 ELSE a[1]) + (IF b = <<>> THEN 0 ELSE b[1])
                     + carry
         IN <<v % Base>>
              \o BigAddCarry(IF a = <<>> THEN <<>> ELSE Tail(a),
                             IF b = <<>> THEN <<>> ELSE Tail(b), v \div Base)

BigAdd(a, b) == BigAddCarry(a, b, 0)

\* long division of the digits i, i - 1, .., 1 of a by d, with the
\* remainder r and the quotient digits q of the digits above i
RECURSIVE BigDivFrom(_, _, _, _, _)
BigDivFrom(a, d, i, r, q) ==
    IF i = 0 THEN [q |-> q, r |-> r]
    ELSE BigDivFrom(a, d, i - 1, (r * Base + a[i]) % d,
                    <<(r * Base + a[i]) \div d>> \o q)

\* quotient and remainder of a by d, for 0 < d < Base
BigDiv(a, d) == BigDivFrom(a, d, Len(a), 0, <<>>)

\* a < b, for a and b without leading zero digits
RECURSIVE BigLt(_, _)
BigLt(a, b) ==
    IF Len(a) # Len(b) THEN Len(a) < Len(b)
    ELSE IF a = <<>> THEN FALSE
    ELSE IF a[Len(a)] # b[Len(b)] THEN a[Len(a)] < b[Len(b)]
    ELSE BigLt(SubSeq(a, 1, Len(a) - 1), SubSeq(b, 1, Len(b) - 1))

\* a * 2^k
BigShl(a, k) ==
    [j \in 1..(k \div DigitBits) |-> 0] \o BigMul(a, 2 ^ (k % DigitBits))

\* the number of bits of n
RECURSIVE IntBits(_)
IntBits(n) == IF n = 0 THEN 0 ELSE 1 + IntBits(n \div 2)

\* the number of bits of a
\* the number of bits of a, for a without leading zero digits
TrimmedBits(t) ==
    IF t = <<>> THEN 0 ELSE DigitBits * (Len(t) - 1) + IntBits(t[Len(t)])

\* the number of bits of a
BitLen(a) == TrimmedBits(BigTrim(a))

\* the quotient and remainder dv as a quotient and the flag that the
\* remainder is not 0 or st is set
WithSticky(dv, st) == [q |-> dv.q, st |-> st \/ dv.r # 0]

\* floor(a / 2^s), and whether a bit that was dropped, or st, is set
RECURSIVE FloorShift(_, _, _)
FloorShift(a, s, st) ==
    IF a = <<>> THEN [q |-> <<>>, st |-> st]
    ELSE IF s >= DigitBits
         THEN FloorShift(Tail(a), s - DigitBits, st \/ a[1] # 0)
         ELSE WithSticky(BigDiv(a, 2 ^ s), st)

\* f is floor(2 * y) for the y to round, f.st says that 2 * y has a
\* fraction, h is floor(y): y rounded to the nearest, ties to even
RoundHalf(f, h) ==
    IF /\ f.q # <<>> /\ f.q[1] % 2 = 1
       /\ (f.st \/ (h # <<>> /\ h[1] % 2 = 1))
    THEN BigTrim(BigAdd(h, <<1>>))
    ELSE BigTrim(h)

\* RoundHalf with floor(y) computed from f
RoundFloor(f) == RoundHalf(f, BigDiv(f.q, 2).q)

\* (a + x) / 2^s rounded to the nearest natural number, ties to even, where
\* 0 < x < 1 when sticky and x = 0 otherwise
RoundShift(a, s, sticky) ==
    IF s = 0 THEN BigTrim(a) ELSE RoundFloor(FloorShift(a, s - 1, sticky))

Zero == [m |-> <<>>, e |-> 0]

\* the float r * 2^e for r of 53 bits, or of 54 bits when rounding
\* carried into a new bit (r is then a power of two)
Renormalize(r, e) ==
    IF BitLen(r) > MantissaBits
    THEN [m |-> BigTrim(BigDiv(r, 2).q), e |-> e + 1]
    ELSE [m |-> r, e |-> e]

\* RoundToFloat for a of n bits
RoundBits(a, e, sticky, n) ==
    IF n = 0 THEN Zero
    ELSE IF n <= MantissaBits
         THEN [m |-> BigTrim(BigShl(a, MantissaBits - n)),
               e |-> e - (MantissaBits - n)]
         ELSE Renormalize(RoundShift(a, n - MantissaBits, sticky),
                          e + n - MantissaBits)

\* the float nearest to (a + x) * 2^e, x as in RoundShift; the result of
\* every float operation and conversion
RoundToFloat(a, e, sticky) == RoundBits(a, e, sticky, BitLen(a))

\* the float nearest to (dv.q + dv.r / d) * 2^e for a quotient and
\* remainder dv of a division by d
RoundQuotient(dv, e) == RoundToFloat(dv.q, e, dv.r # 0)

\* the bits by which a dividend is extended before an integer division, so
\* that the quotient has more bits than a significand
DivBits == 75

\* n / d for the ints n >= 0 and 0 < d < Base, and float("n/d" in decimal
\* notation): the float nearest to the quotient
float_div(n, d) ==
    RoundQuotient(BigDiv(BigShl(BigOf(n), DivBits), d), -DivBits)

\* x + y
float_add(x, y) ==
    IF x = Zero THEN y
    ELSE IF y = Zero THEN x
    ELSE RoundToFloat(BigAdd(BigShl(x.m, x.e - Min(x.e, y.e)),
                             BigShl(y.m, y.e - Min(x.e, y.e))),
                      Min(x.e, y.e), FALSE)

\* x / n for the int n, 0 < n < Base
float_div_int(x, n) ==
    RoundQuotient(BigDiv(BigShl(x.m, DivBits), n), x.e - DivBits)

\* x < y
float_lt(x, y) ==
    IF y = Zero THEN FALSE
    ELSE IF x = Zero THEN TRUE
    ELSE x.e < y.e \/ (x.e = y.e /\ BigLt(x.m, y.m))

\* sum(xs): the floats are added from the left, starting at 0
RECURSIVE float_sum(_)
float_sum(xs) ==
    IF xs = <<>> THEN Zero
    ELSE float_add(float_sum(SubSeq(xs, 1, Len(xs) - 1)), xs[Len(xs)])

\* m when m < x, else x
Lesser(m, x) == IF float_lt(m, x) THEN m ELSE x

\* m when x < m, else x
Greater(m, x) == IF float_lt(x, m) THEN m ELSE x

\* min(xs)
RECURSIVE float_min(_)
float_min(xs) ==
    IF Len(xs) = 1 THEN xs[1] ELSE Lesser(float_min(Tail(xs)), xs[1])

\* max(xs)
RECURSIVE float_max(_)
float_max(xs) ==
    IF Len(xs) = 1 THEN xs[1] ELSE Greater(float_max(Tail(xs)), xs[1])

\* round(x, 3): the exact value of x is rounded to the nearest multiple k of
\* 1/1000, ties to even k, and the result is the float nearest to k/1000
Round3(x) ==
    IF x = Zero THEN Zero
    ELSE RoundQuotient(
             BigDiv(BigShl(RoundShift(BigMul(x.m, 1000), 0 - x.e, FALSE), DivBits),
                    1000),
             -DivBits)

-----------------------------------------------------------------------------
(* Characters *)

\* str.isspace() / the separators of str.split(): the Unicode whitespace
Whitespace ==
    (9..13) \cup (28..32) \cup {133, 160, 5760} \cup (8192..8202)
        \cup {8232, 8233, 8239, 8287, 12288}

isspace(ch) == ch \in Whitespace

\* ch lies in one of the ranges <<first, last>> of runs
InRuns(ch, runs) == \E r \in runs : r[1] <= ch /\ ch <= r[2]

\* the simple lowercase mapping of the Unicode database of the interpreter
\* (14.0.0): <<first, last, delta, step>> maps first, first + step, ..,
\* last to themselves plus delta
LowerRuns ==
    {
     <<65, 90, 32, 1>>, <<192, 214, 32, 1>>, <<216, 222, 32, 1>>,
     <<256, 302, 1, 2>>, <<306, 310, 1, 2>>, <<313, 327, 1, 2>>,
     <<330, 374, 1, 2>>, <<376, 376, -121, 1>>, <<377, 381, 1, 2>>,
     <<385, 385, 210, 1>>, <<386, 388, 1, 2>>, <<390, 390, 206, 1>>,
     <<391, 391, 1, 1>>, <<393, 394, 205, 1>>, <<395, 395, 1, 1>>,
     <<398, 398, 79, 1>>, <<399, 399, 202, 1>>, <<400, 400, 203, 1>>,
     <<401, 401, 1, 1>>, <<403, 403, 205, 1>>, <<404, 404, 207, 1>>,
     <<406, 406, 211, 1>>, <<407, 407, 209, 1>>, <<408, 408, 1, 1>>,
     <<412, 412, 211, 1>>, <<413, 413, 213, 1>>, <<415, 415, 214, 1>>,
     <<416, 420, 1, 2>>, <<422, 422, 218, 1>>, <<423, 423, 1, 1>>,
     <<425, 425, 218, 1>>, <<428, 428, 1, 1>>, <<430, 430, 218, 1>>,
     <<431, 431, 1, 1>>, <<433, 434, 217, 1>>, <<435, 437, 1, 2>>,
     <<439, 439, 219, 1>>, <<440, 440, 1, 1>>, <<444, 444, 1, 1>>,
     <<452, 452, 2, 1>>, <<453, 453, 1, 1>>, <<455, 455, 2, 1>>,
     <<456, 456, 1, 1>>, <<458, 458, 2, 1>>, <<459, 475, 1, 2>>,
     <<478, 494, 1, 2>>, <<497, 497, 2, 1>>, <<498, 500, 1, 2>>,
     <<502, 502, -97, 1>>, <<503, 503, -56, 1>>, <<504, 542, 1, 2>>,
     <<544, 544, -130, 1>>, <<546, 562, 1, 2>>, <<570, 570, 10795, 1>>,
     <<571, 571, 1, 1>>, <<573, 573, -163, 1>>, <<574, 574, 10792, 1>>,
     <<577, 577, 1, 1>>, <<579, 579, -195, 1>>, <<580, 580, 69, 1>>,
     <<581, 581, 71, 1>>, <<582, 590, 1, 2>>, <<880, 882, 1, 2>>,
     <<886, 886, 1, 1>>, <<895, 895, 116, 1>>, <<902, 902, 38, 1>>,
     <<904, 906, 37, 1>>, <<908, 908, 64, 1>>, <<910, 911, 63, 1>>,
     <<913, 929, 32, 1>>, <<931, 939, 32, 1>>, <<975, 975, 8, 1>>,
     <<984, 1006, 1, 2>>, <<1012, 1012, -60, 1>>, <<1015, 1015, 1, 1>>,
     <<1017, 1017, -7, 1>>, <<1018, 1018, 1, 1>>, <<1021, 1023, -130, 1>>,
     <<1024, 1039, 80, 1>>, <<1040, 1071, 32, 1>>, <<1120, 1152, 1, 2>>,
     <<1162, 1214, 1, 2>>, <<1216, 1216, 15, 1>>, <<1217, 1229, 1, 2>>,
     <<1232, 1326, 1, 2>>, <<1329, 1366, 48, 1>>, <<4256, 4293, 7264, 1>>,
     <<4295, 4295, 7264, 1>>, <<4301, 4301, 7264, 1>>,
     <<5024, 5103, 38864, 1>>, <<5104, 5109, 8, 1>>,
     <<7312, 7354, -3008, 1>>, <<7357, 7359, -3008, 1>>,
     <<7680, 7828, 1, 2>>, <<7838, 7838, -7615, 1>>, <<7840, 7934, 1, 2>>,
     <<7944, 7951, -8, 1>>, <<7960, 7965, -8, 1>>, <<7976, 7983, -8, 1>>,
     <<7992, 7999, -8, 1>>, <<8008, 8013, -8, 1>>, <<8025, 8031, -8, 2>>,
     <<8040, 8047, -8, 1>>, <<8072, 8079, -8, 1>>, <<8088, 8095, -8, 1>>,
     <<8104, 8111, -8, 1>>, <<8120, 8121, -8, 1>>, <<8122, 8123, -74, 1>>,
     <<8124, 8124, -9, 1>>, <<8136, 8139, -86, 1>>, <<8140, 8140, -9, 1>>,
     <<8152, 8153, -8, 1>>, <<8154, 8155, -100, 1>>, <<8168, 8169, -8, 1>>,
     <<8170, 8171, -112, 1>>, <<8172, 8172, -7, 1>>, <<8184, 8185, -128, 1>>,
     <<8186, 8187, -126, 1>>, <<8188, 8188, -9, 1>>,
     <<8486, 8486, -7517, 1>>, <<8490, 8490, -8383, 1>>,
     <<8491, 8491, -8262, 1>>, <<8498, 8498, 28, 1>>, <<8544, 8559, 16, 1>>,
     <<8579, 8579, 1, 1>>, <<9398, 9423, 26, 1>>, <<11264, 11311, 48, 1>>,
     <<11360, 11360, 1, 1>>, <<11362, 11362, -10743, 1>>,
     <<11363, 11363, -3814, 1>>, <<11364, 11364, -10727, 1>>,
     <<11367, 11371, 1, 2>>, <<11373, 11373, -10780, 1>>,
     <<11374, 11374, -10749, 1>>, <<11375, 11375, -10783, 1>>,
     <<11376, 11376, -10782, 1>>, <<11378, 11378, 1, 1>>,
     <<11381, 11381, 1, 1>>, <<11390, 11391, -10815, 1>>,
     <<11392, 11490, 1, 2>>, <<11499, 11501, 1, 2>>, <<11506, 11506, 1, 1>>,
     <<42560, 42604, 1, 2>>, <<42624, 42650, 1, 2>>, <<42786, 42798, 1, 2>>,
     <<42802, 42862, 1, 2>>, <<42873, 42875, 1, 2>>,
     <<42877, 42877, -35332, 1>>, <<42878, 42886, 1, 2>>,
     <<42891, 42891, 1, 1>>, <<42893, 42893, -42280, 1>>,
     <<42896, 42898, 1, 2>>, <<42902, 42920, 1, 2>>,
     <<42922, 42922, -42308, 1>>, <<42923, 42923, -42319, 1>>,
     <<42924, 42924, -42315, 1>>, <<42925, 42925, -42305, 1>>,
     <<42926, 42926, -42308, 1>>, <<42928, 42928, -42258, 1>>,
     <<42929, 42929, -42282, 1>>, <<42930, 42930, -42261, 1>>,
     <<42931, 42931, 928, 1>>, <<42932, 42946, 1, 2>>,
     <<42948, 42948, -48, 1>>, <<42949, 42949, -42307, 1>>,
     <<42950, 42950, -35384, 1>>, <<42951, 42953, 1, 2>>,
     <<42960, 42960, 1, 1>>, <<42966, 42968, 1, 2>>, <<42997, 42997, 1, 1>>,
     <<65313, 65338, 32, 1>>, <<66560, 66599, 40, 1>>,
     <<66736, 66771, 40, 1>>, <<66928, 66938, 39, 1>>,
     <<66940, 66954, 39, 1>>, <<66956, 66962, 39, 1>>,
     <<66964, 66965, 39, 1>>, <<68736, 68786, 64, 1>>,
     <<71840, 71871, 32, 1>>, <<93760, 93791, 32, 1>>,
     <<125184, 125217, 34, 1>>}

\* the code points with the property Case_Ignorable
CaseIgnorable ==
    {
     <<39, 39>>, <<46, 46>>, <<58, 58>>, <<94, 94>>, <<96, 96>>,
     <<168, 168>>, <<173, 173>>, <<175, 175>>, <<180, 180>>, <<183, 184>>,
     <<688, 879>>, <<884, 885>>, <<890, 890>>, <<900, 901>>, <<903, 903>>,
     <<1155, 1161>>, <<1369, 1369>>, <<1375, 1375>>, <<1425, 1469>>,
     <<1471, 1471>>, <<1473, 1474>>, <<1476, 1477>>, <<1479, 1479>>,
     <<1524, 1524>>, <<1536, 1541>>, <<1552, 1562>>, <<1564, 1564>>,
     <<1600, 1600>>, <<1611, 1631>>, <<1648, 1648>>, <<1750, 1757>>,
     <<1759, 1768>>, <<1770, 1773>>, <<1807, 1807>>, <<1809, 1809>>,
     <<1840, 1866>>, <<1958, 1968>>, <<2027, 2037>>, <<2042, 2042>>,
     <<2045, 2045>>, <<2070, 2093>>, <<2137, 2139>>, <<2184, 2184>>,
     <<2192, 2193>>, <<2200, 2207>>, <<2249, 2306>>, <<2362, 2362>>,
     <<2364, 2364>>, <<2369, 2376>>, <<2381, 2381>>, <<2385, 2391>>,
     <<2402, 2403>>, <<2417, 2417>>, <<2433, 2433>>, <<2492, 2492>>,
     <<2497, 2500>>, <<2509, 2509>>, <<2530, 2531>>, <<2558, 2558>>,
     <<2561, 2562>>, <<2620, 2620>>, <<2625, 2626>>, <<2631, 2632>>,
     <<2635, 2637>>, <<2641, 2641>>, <<2672, 2673>>, <<2677, 2677>>,
     <<2689, 2690>>, <<2748, 2748>>, <<2753, 2757>>, <<2759, 2760>>,
     <<2765, 2765>>, <<2786, 2787>>, <<2810, 2815>>, <<2817, 2817>>,
     <<2876, 2876>>, <<2879, 2879>>, <<2881, 2884>>, <<2893, 2893>>,
     <<2901, 2902>>, <<2914, 2915>>, <<2946, 2946>>, <<3008, 3008>>,
     <<3021, 3021>>, <<3072, 3072>>, <<3076, 3076>>, <<3132, 3132>>,
     <<3134, 3136>>, <<3142, 3144>>, <<3146, 3149>>, <<3157, 3158>>,
     <<3170, 3171>>, <<3201, 3201>>, <<3260, 3260>>, <<3263, 3263>>,
     <<3270, 3270>>, <<3276, 3277>>, <<3298, 3299>>, <<3328, 3329>>,
     <<3387, 3388>>, <<3393, 3396>>, <<3405, 3405>>, <<3426, 3427>>,
     <<3457, 3457>>, <<3530, 3530>>, <<3538, 3540>>, <<3542, 3542>>,
     <<3633, 3633>>, <<3636, 3642>>, <<3654, 3662>>, <<3761, 3761>>,
     <<3764, 3772>>, <<3782, 3782>>, <<3784, 3789>>, <<3864, 3865>>,
     <<3893, 3893>>, <<3895, 3895>>, <<3897, 3897>>, <<3953, 3966>>,
     <<3968, 3972>>, <<3974, 3975>>, <<3981, 3991>>, <<3993, 4028>>,
     <<4038, 4038>>, <<4141, 4144>>, <<4146, 4151>>, <<4153, 4154>>,
     <<4157, 4158>>, <<4184, 4185>>, <<4190, 4192>>, <<4209, 4212>>,
     <<4226, 4226>>, <<4229, 4230>>, <<4237, 4237>>, <<4253, 4253>>,
     <<4348, 4348>>, <<4957, 4959>>, <<5906, 5908>>, <<5938, 5939>>,
     <<5970, 5971>>, <<6002, 6003>>, <<6068, 6069>>, <<6071, 6077>>,
     <<6086, 6086>>, <<6089, 6099>>, <<6103, 6103>>, <<6109, 6109>>,
     <<6155, 6159>>, <<6211, 6211>>, <<6277, 6278>>, <<6313, 6313>>,
     <<6432, 6434>>, <<6439, 6440>>, <<6450, 6450>>, <<6457, 6459>>,
     <<6679, 6680>>, <<6683, 6683>>, <<6742, 6742>>, <<6744, 6750>>,
     <<6752, 6752>>, <<6754, 6754>>, <<6757, 6764>>, <<6771, 6780>>,
     <<6783, 6783>>, <<6823, 6823>>, <<6832, 6862>>, <<6912, 6915>>,
     <<6964, 6964>>, <<6966, 6970>>, <<6972, 6972>>, <<6978, 6978>>,
     <<7019, 7027>>, <<7040, 7041>>, <<7074, 7077>>, <<7080, 7081>>,
     <<7083, 7085>>, <<7142, 7142>>, <<7144, 7145>>, <<7149, 7149>>,
     <<7151, 7153>>, <<7212, 7219>>, <<7222, 7223>>, <<7288, 7293>>,
     <<7376, 7378>>, <<7380, 7392>>, <<7394, 7400>>, <<7405, 7405>>,
     <<7412, 7412>>, <<7416, 7417>>, <<7468, 7530>>, <<7544, 7544>>,
     <<7579, 7679>>, <<8125, 8125>>, <<8127, 8129>>, <<8141, 8143>>,
     <<8157, 8159>>, <<8173, 8175>>, <<8189, 8190>>, <<8203, 8207>>,
     <<8216, 8217>>, <<8228, 8228>>, <<8231, 8231>>, <<8234, 8238>>,
     <<8288, 8292>>, <<8294, 8303>>, <<8305, 8305>>, <<8319, 8319>>,
     <<8336, 8348>>, <<8400, 8432>>, <<11388, 11389>>, <<11503, 11505>>,
     <<11631, 11631>>, <<11647, 11647>>, <<11744, 11775>>, <<11823, 11823>>,
     <<12293, 12293>>, <<12330, 12333>>, <<12337, 12341>>, <<12347, 12347>>,
     <<12441, 12446>>, <<12540, 12542>>, <<40981, 40981>>, <<42232, 42237>>,
     <<42508, 42508>>, <<42607, 42610>>, <<42612, 42621>>, <<42623, 42623>>,
     <<42652, 42655>>, <<42736, 42737>>, <<42752, 42785>>, <<42864, 42864>>,
     <<42888, 42890>>, <<42994, 42996>>, <<43000, 43001>>, <<43010, 43010>>,
     <<43014, 43014>>, <<43019, 43019>>, <<43045, 43046>>, <<43052, 43052>>,
     <<43204, 43205>>, <<43232, 43249>>, <<43263, 43263>>, <<43302, 43309>>,
     <<43335, 43345>>, <<43392, 43394>>, <<43443, 43443>>, <<43446, 43449>>,
     <<43452, 43453>>, <<43471, 43471>>, <<43493, 43494>>, <<43561, 43566>>,
     <<43569, 43570>>, <<43573, 43574>>, <<43587, 43587>>, <<43596, 43596>>,
     <<43632, 43632>>, <<43644, 43644>>, <<43696, 43696>>, <<43698, 43700>>,
     <<43703, 43704>>, <<43710, 43711>>, <<43713, 43713>>, <<43741, 43741>>,
     <<43756, 43757>>, <<43763, 43764>>, <<43766, 43766>>, <<43867, 43871>>,
     <<43881, 43883>>, <<44005, 44005>>, <<44008, 44008>>, <<44013, 44013>>,
     <<64286, 64286>>, <<64434, 64450>>, <<65024, 65039>>, <<65043, 65043>>,
     <<65056, 65071>>, <<65106, 65106>>, <<65109, 65109>>, <<65279, 65279>>,
     <<65287, 65287>>, <<65294, 65294>>, <<65306, 65306>>, <<65342, 65342>>,
     <<65344, 65344>>, <<65392, 65392>>, <<65438, 65439>>, <<65507, 65507>>,
     <<65529, 65531>>, <<66045, 66045>>, <<66272, 66272>>, <<66422, 66426>>,
     <<67456, 67461>>, <<67463, 67504>>, <<67506, 67514>>, <<68097, 68099>>,
     <<68101, 68102>>, <<68108, 68111>>, <<68152, 68154>>, <<68159, 68159>>,
     <<68325, 68326>>, <<68900, 68903>>, <<69291, 69292>>, <<69446, 69456>>,
     <<69506, 69509>>, <<69633, 69633>>, <<69688, 69702>>, <<69744, 69744>>,
     <<69747, 69748>>, <<69759, 69761>>, <<69811, 69814>>, <<69817, 69818>>,
     <<69821, 69821>>, <<69826, 69826>>, <<69837, 69837>>, <<69888, 69890>>,
     <<69927, 69931>>, <<69933, 69940>>, <<70003, 70003>>, <<70016, 70017>>,
     <<70070, 70078>>, <<70089, 70092>>, <<70095, 70095>>, <<70191, 70193>>,
     <<70196, 70196>>, <<70198, 70199>>, <<70206, 70206>>, <<70367, 70367>>,
     <<70371, 70378>>, <<70400, 70401>>, <<70459, 70460>>, <<70464, 70464>>,
     <<70502, 70508>>, <<70512, 70516>>, <<70712, 70719>>, <<70722, 70724>>,
     <<70726, 70726>>, <<70750, 70750>>, <<70835, 70840>>, <<70842, 70842>>,
     <<70847, 70848>>, <<70850, 70851>>, <<71090, 71093>>, <<71100, 71101>>,
     <<71103, 71104>>, <<71132, 71133>>, <<71219, 71226>>, <<71229, 71229>>,
     <<71231, 71232>>, <<71339, 71339>>, <<71341, 71341>>, <<71344, 71349>>,
     <<71351, 71351>>, <<71453, 71455>>, <<71458, 71461>>, <<71463, 71467>>,
     <<71727, 71735>>, <<71737, 71738>>, <<71995, 71996>>, <<71998, 71998>>,
     <<72003, 72003>>, <<72148, 72151>>, <<72154, 72155>>, <<72160, 72160>>,
     <<72193, 72202>>, <<72243, 72248>>, <<72251, 72254>>, <<72263, 72263>>,
     <<72273, 72278>>, <<72281, 72283>>, <<72330, 72342>>, <<72344, 72345>>,
     <<72752, 72758>>, <<72760, 72765>>, <<72767, 72767>>, <<72850, 72871>>,
     <<72874, 72880>>, <<72882, 72883>>, <<72885, 72886>>, <<73009, 73014>>,
     <<73018, 73018>>, <<73020, 73021>>, <<73023, 73029>>, <<73031, 73031>>,
     <<73104, 73105>>, <<73109, 73109>>, <<73111, 73111>>, <<73459, 73460>>,
     <<78896, 78904>>, <<92912, 92916>>, <<92976, 92982>>, <<92992, 92995>>,
     <<94031, 94031>>, <<94095, 94111>>, <<94176, 94177>>, <<94179, 94180>>,
     <<110576, 110579>>, <<110581, 110587>>, <<110589, 110590>>,
     <<113821, 113822>>, <<113824, 113827>>, <<118528, 118573>>,
     <<118576, 118598>>, <<119143, 119145>>, <<119155, 119170>>,
     <<119173, 119179>>, <<119210, 119213>>, <<119362, 119364>>,
     <<121344, 121398>>, <<121403, 121452>>, <<121461, 121461>>,
     <<121476, 121476>>, <<121499, 121503>>, <<121505, 121519>>,
     <<122880, 122886>>, <<122888, 122904>>, <<122907, 122913>>,
     <<122915, 122916>>, <<122918, 122922>>, <<123184, 123197>>,
     <<123566, 123566>>, <<123628, 123631>>, <<125136, 125142>>,
     <<125252, 125259>>, <<127995, 127999>>, <<917505, 917505>>,
     <<917536, 917631>>, <<917760, 917999>>}

\* the code points with the property Cased and without Case_Ignorable
Cased ==
    {
     <<65, 90>>, <<97, 122>>, <<170, 170>>, <<181, 181>>, <<186, 186>>,
     <<192, 214>>, <<216, 246>>, <<248, 442>>, <<444, 447>>, <<452, 659>>,
     <<661, 687>>, <<880, 883>>, <<886, 887>>, <<891, 893>>, <<895, 895>>,
     <<902, 902>>, <<904, 906>>, <<908, 908>>, <<910, 929>>, <<931, 1013>>,
     <<1015, 1153>>, <<1162, 1327>>, <<1329, 1366>>, <<1376, 1416>>,
     <<4256, 4293>>, <<4295, 4295>>, <<4301, 4301>>, <<4304, 4346>>,
     <<4349, 4351>>, <<5024, 5109>>, <<5112, 5117>>, <<7296, 7304>>,
     <<7312, 7354>>, <<7357, 7359>>, <<7424, 7467>>, <<7531, 7543>>,
     <<7545, 7578>>, <<7680, 7957>>, <<7960, 7965>>, <<7968, 8005>>,
     <<8008, 8013>>, <<8016, 8023>>, <<8025, 8025>>, <<8027, 8027>>,
     <<8029, 8029>>, <<8031, 8061>>, <<8064, 8116>>, <<8118, 8124>>,
     <<8126, 8126>>, <<8130, 8132>>, <<8134, 8140>>, <<8144, 8147>>,
     <<8150, 8155>>, <<8160, 8172>>, <<8178, 8180>>, <<8182, 8188>>,
     <<8450, 8450>>, <<8455, 8455>>, <<8458, 8467>>, <<8469, 8469>>,
     <<8473, 8477>>, <<8484, 8484>>, <<8486, 8486>>, <<8488, 8488>>,
     <<8490, 8493>>, <<8495, 8500>>, <<8505, 8505>>, <<8508, 8511>>,
     <<8517, 8521>>, <<8526, 8526>>, <<8544, 8575>>, <<8579, 8580>>,
     <<9398, 9449>>, <<11264, 11387>>, <<11390, 11492>>, <<11499, 11502>>,
     <<11506, 11507>>, <<11520, 11557>>, <<11559, 11559>>, <<11565, 11565>>,
     <<42560, 42605>>, <<42624, 42651>>, <<42786, 42863>>, <<42865, 42887>>,
     <<42891, 42894>>, <<42896, 42954>>, <<42960, 42961>>, <<42963, 42963>>,
     <<42965, 42969>>, <<42997, 42998>>, <<43002, 43002>>, <<43824, 43866>>,
     <<43872, 43880>>, <<43888, 43967>>, <<64256, 64262>>, <<64275, 64279>>,
     <<65313, 65338>>, <<65345, 65370>>, <<66560, 66639>>, <<66736, 66771>>,
     <<66776, 66811>>, <<66928, 66938>>, <<66940, 66954>>, <<66956, 66962>>,
     <<66964, 66965>>, <<66967, 66977>>, <<66979, 66993>>, <<66995, 67001>>,
     <<67003, 67004>>, <<68736, 68786>>, <<68800, 68850>>, <<71840, 71903>>,
     <<93760, 93823>>, <<119808, 119892>>, <<119894, 119964>>,
     <<119966, 119967>>, <<119970, 119970>>, <<119973, 119974>>,
     <<119977, 119980>>, <<119982, 119993>>, <<119995, 119995>>,
     <<119997, 120003>>, <<120005, 120069>>, <<120071, 120074>>,
     <<120077, 120084>>, <<120086, 120092>>, <<120094, 120121>>,
     <<120123, 120126>>, <<120128, 120132>>, <<120134, 120134>>,
     <<120138, 120144>>, <<120146, 120485>>, <<120488, 120512>>,
     <<120514, 120538>>, <<120540, 120570>>, <<120572, 120596>>,
     <<120598, 120628>>, <<120630, 120654>>, <<120656, 120686>>,
     <<120688, 120712>>, <<120714, 120744>>, <<120746, 120770>>,
     <<120772, 120779>>, <<122624, 122633>>, <<122635, 122654>>,
     <<125184, 125251>>, <<127280, 127305>>, <<127312, 127337>>,
     <<127344, 127369>>}

\* the mapping of LowerRuns as a function on the code points it maps
LowerMap ==
    [ch \in UNION {{r[1] + r[4] * j : j \in 0..((r[2] - r[1]) \div r[4])} :
                      r \in LowerRuns} |->
        ch + (CHOOSE r \in LowerRuns :
                  r[1] <= ch /\ ch <= r[2] /\ (ch - r[1]) % r[4] = 0)[3]]

\* the lowercase of one code point other than capital sigma: U+0130 becomes
\* two code points, a code point of LowerMap its image, every other one
\* stays
lower_char(ch) ==
    IF ch = 304 THEN <<105, 775>>
    ELSE IF ch \in DOMAIN LowerMap THEN <<LowerMap[ch]>>
    ELSE <<ch>>

\* the first position before i (dir = -1) or after i (dir = 1) whose code
\* point is not case-ignorable; 0 or Len(s) + 1 when there is none
RECURSIVE skip_ignorable(_, _, _)
skip_ignorable(s, i, dir) ==
    IF i + dir \in 1..Len(s) /\ InRuns(s[i + dir], CaseIgnorable)
    THEN skip_ignorable(s, i + dir, dir)
    ELSE i + dir

\* the capital sigma at i ends a word: a cased letter stands before it and
\* none after it, case-ignorable code points skipped
final_sigma(s, i) ==
    LET b == skip_ignorable(s, i, -1)
        a == skip_ignorable(s, i, 1)
    IN /\ b >= 1 /\ InRuns(s[b], Cased)
       /\ ~(a <= Len(s) /\ InRuns(s[a], Cased))

\* str.lower()
lower(s) ==
    Concat([i \in 1..Len(s) |->
               IF s[i] = 931 THEN (IF final_sigma(s, i) THEN <<962>> ELSE <<963>>)
               ELSE lower_char(s[i])])

\* ASCII_LETTER_RE = [A-Za-z]
ASCII_LETTER_RE(ch) == ch \in 65..90 \/ ch \in 97..122

-----------------------------------------------------------------------------
(* script/check_translation.py: text normalizer *)

\* "".join(s.split()).lower()
normalize_text(s) == lower(SelectSeq(s, LAMBDA ch : ~isspace(ch)))

\* sum(1 for ch in s if not ch.isspace())
char_len(s) == Len(SelectSeq(s, LAMBDA ch : ~isspace(ch)))

\* s.replace(old, "") for a two-character old: the non-overlapping
\* occurrences, found left to right, are deleted
RECURSIVE replace2(_, _)
replace2(s, old) ==
    IF Len(s) < 2 THEN s
    ELSE IF <<s[1], s[2]>> = old THEN replace2(SubSeq(s, 3, Len(s)), old)
    ELSE <<s[1]>> \o replace2(Tail(s), old)

\* s.replace("**", "")
strip_stars(s) == replace2(s, <<42, 42>>)

\* variant: the two passes in the other order
strip_markup_swapped(s) == replace2(replace2(s, <<47, 47>>), <<42, 42>>)

\* s = s.replace("**", ""); return s.replace("//", "")
strip_markup(s) == replace2(strip_stars(s), <<47, 47>>)

ascii_ratio(s) ==
    LET ascii_chars == Len(SelectSeq(s, LAMBDA ch : ch < 128 /\ ~isspace(ch)))
        total       == Len(SelectSeq(s, LAMBDA ch : ~isspace(ch)))
    IN IF s = <<>> THEN Zero
       ELSE IF total # 0 THEN float_div(ascii_chars, total) ELSE Zero

\* str.strip()
RECURSIVE lstrip(_)
lstrip(s) == IF s # <<>> /\ isspace(s[1]) THEN lstrip(Tail(s)) ELSE s

RECURSIVE rstrip(_)
rstrip(s) ==
    IF s # <<>> /\ isspace(s[Len(s)]) THEN rstrip(SubSeq(s, 1, Len(s) - 1)) ELSE s

strip(s) == rstrip(lstrip(s))

\* s.strip().replace('\n', ' ')[:60]
PreviewLen == 60

preview(s) ==
    LET t == strip(s)
        u == [k \in 1..Len(t) |-> IF t[k] = 10 THEN 32 ELSE t[k]]
    IN SubSeq(u, 1, Min(Len(u), PreviewLen))

-----------------------------------------------------------------------------
(* Parsed documents (xml.etree.ElementTree) *)

\* an element without a tail
El(ns, name, id, text, depth) ==
    [ns |-> ns, name |-> name, id |-> id, text |-> text, tail |-> <<>>,
     depth |-> depth]

\* the proper descendants of element i
Descendants(d, i) ==
    {j \in (i + 1)..Len(d) : \A k \in (i + 1)..j : d[k].depth > d[i].depth}

\* list(el): the children of element i, in document order
Children(d, i) ==
    SortedSeq({j \in Descendants(d, i) : d[j].depth = d[i].depth + 1})

\* ''.join(el.itertext()): the element's text, then for each child its
\* itertext followed by its tail
RECURSIVE itertext(_, _)
itertext(d, i) ==
    LET kids == Children(d, i)
    IN d[i].text
         \o Concat([k \in 1..Len(kids) |-> itertext(d, kids[k]) \o d[kids[k]].tail])

\* _local(tag): the part of "{uri}name" after the brace
_local(el) == el.name

\* el.tag == name: a path step without namespace matches only a tag
\* without namespace
tag_is(el, name) == el.ns = "" /\ el.name = name

\* el.find(name): the first child whose tag is name, 0 for None
find(d, i, name) ==
    LET hits == SelectSeq(Children(d, i), LAMBDA j : tag_is(d[j], name))
    IN IF hits = <<>> THEN 0 ELSE hits[1]

\* root.findall('.//' + name): the descendants of the root whose tag is name
findall(d, name) ==
    SortedSeq({j \in Descendants(d, 1) : tag_is(d[j], name)})

\* str(n)
RECURSIVE Decimal(_)
Decimal(n) ==
    IF n < 10 THEN <<48 + n>> ELSE Decimal(n \div 10) \o <<48 + (n % 10)>>

-----------------------------------------------------------------------------
(* script/check_translation.py: iter_units *)

\* lines 96-107: one yield per trans-unit that has a source and a target
\* child. A yield names the element it is made for (el), the element whose
\* id it uses (owner), the id it carries and the two text elements.
shape_a_yields(d, trans_units) ==
    LET full == SelectSeq(trans_units,
                    LAMBDA tu : find(d, tu, "source") # 0 /\ find(d, tu, "target") # 0)
    IN [k \in 1..Len(full) |->
          [el     |-> full[k],
           owner  |-> full[k],
           id     |-> d[full[k]].id,
           src_el |-> find(d, full[k], "source"),
           tgt_el |-> find(d, full[k], "target")]]

\* line 114, 117: the segments of unit el: its children named segment, or,
\* when it has none, every element of el.iter() named segment
unit_segments(d, el) ==
    LET direct == SelectSeq(Children(d, el), LAMBDA c : _local(d[c]) = "segment")
    IN IF direct = <<>>
       THEN SortedSeq({c \in {el} \cup Descendants(d, el) : _local(d[c]) = "segment"})
       ELSE direct

\* lines 119-126: the last child of seg with the given local name, 0 for None
last_child(d, seg, lname) ==
    LET hits == SelectSeq(Children(d, seg), LAMBDA c : _local(d[c]) = lname)
    IN IF hits = <<>> THEN 0 ELSE hits[Len(hits)]

\* line 131
seg_id(unit_id, nsegs, idx) ==
    IF nsegs = 1 THEN unit_id ELSE unit_id \o <<58>> \o Decimal(idx)

\* variant: the segments are numbered after the incomplete ones are dropped
unit_yields_filtered(d, el) ==
    LET segments == SelectSeq(unit_segments(d, el),
                        LAMBDA c : /\ last_child(d, c, "source") # 0
                                   /\ last_child(d, c, "target") # 0)
    IN [n \in 1..Len(segments) |->
          [el     |-> segments[n],
           owner  |-> el,
           id     |-> seg_id(d[el].id, Len(segments), n),
           src_el |-> last_child(d, segments[n], "source"),
           tgt_el |-> last_child(d, segments[n], "target")]]

\* lines 118-132: the yields of one unit
unit_yields(d, el) ==
    LET segments == unit_segments(d, el)
        ok       == SelectSeq([k \in 1..Len(segments) |-> k],
                        LAMBDA k : /\ last_child(d, segments[k], "source") # 0
                                   /\ last_child(d, segments[k], "target") # 0)
    IN [n \in 1..Len(ok) |->
          [el     |-> segments[ok[n]],
           owner  |-> el,
           id     |-> seg_id(d[el].id, Len(segments), ok[n]),
           src_el |-> last_child(d, segments[ok[n]], "source"),
           tgt_el |-> last_child(d, segments[ok[n]], "target")]]

\* lines 111-132: every element of root.iter() named unit, in document order
shape_b_yields(d) ==
    LET unit_els == SelectSeq([k \in 1..Len(d) |-> k], LAMBDA k : _local(d[k]) = "unit")
    IN Concat([k \in 1..Len(unit_els) |-> unit_yields(d, unit_els[k])])

\* lines 96-132: which elements iter_units yields, and under which id
iter_yields(d) ==
    LET trans_units == findall(d, "trans-unit")
    IN IF trans_units # <<>> THEN shape_a_yields(d, trans_units)
       ELSE shape_b_yields(d)

\* the (id, src, tgt) triple of a yield
triple(d, y) ==
    [id |-> y.id, src |-> itertext(d, y.src_el), tgt |-> itertext(d, y.tgt_el)]

\* the triples of a sequence of yields
triples(d, ys) == [k \in 1..Len(ys) |-> triple(d, ys[k])]

\* the sequence of triples the generator delivers
iter_units(d) == triples(d, iter_yields(d))

-----------------------------------------------------------------------------
(* script/extract_glossary.py: iter_units *)

\* lines 67-75: only trans-unit elements are looked for
glossary_iter_yields(d) == shape_a_yields(d, findall(d, "trans-unit"))

glossary_iter_units(d) == triples(d, glossary_iter_yields(d))

-----------------------------------------------------------------------------
(* script/check_translation.py: analyze *)

\* variant: the comparison without the non-empty test
untranslated_of_unguarded(src_clean, tgt_clean) ==
    normalize_text(src_clean) = normalize_text(tgt_clean)

\* lines 145-147
untranslated_of(src_clean, tgt_clean) ==
    LET src_norm == normalize_text(src_clean)
        tgt_norm == normalize_text(tgt_clean)
    IN src_norm = tgt_norm /\ src_norm # <<>>

\* lines 148-149
ascii_heavy_of(tgt_clean, threshold) ==
    /\ ~float_lt(ascii_ratio(tgt_clean), threshold)
    /\ \E k \in 1..Len(tgt_clean) : ASCII_LETTER_RE(tgt_clean[k])

\* variant: the source length without the floor of 1
s_len_of_unfloored(src_clean) == char_len(src_clean)

\* line 150
s_len_of(src_clean) == Max(char_len(src_clean), 1)

\* line 152
ratio_of(t_len, s_len) == IF s_len # 0 THEN float_div(t_len, s_len) ELSE Zero

\* line 153
ratio_flag_of(ratio, lo, hi) == float_lt(ratio, lo) \/ float_lt(hi, ratio)

\* lines 150-152: the unrounded ratio of one unit, appended to ratios
unit_ratio(u) ==
    ratio_of(char_len(strip_markup(u.tgt)), s_len_of(strip_markup(u.src)))

\* lines 143-175: the UnitReport of one unit, ratio its unrounded ratio
unit_report(u, ratio, lo, hi, threshold) ==
    LET src_clean == strip_markup(u.src)
        tgt_clean == strip_markup(u.tgt)
    IN [id             |-> u.id,
        source_chars   |-> s_len_of(src_clean),
        target_chars   |-> char_len(tgt_clean),
        ratio          |-> Round3(ratio),
        untranslated   |-> untranslated_of(src_clean, tgt_clean),
        ascii_heavy    |-> ascii_heavy_of(tgt_clean, threshold),
        ratio_flag     |-> ratio_flag_of(ratio, lo, hi),
        source_preview |-> preview(src_clean),
        target_preview |-> preview(tgt_clean)]

\* variant: ratio_flags is given the wrong counter
make_summary_swapped(reps, rats, n_untranslated, n_ascii_heavy, n_ratio_flag) ==
    LET avg_ratio == IF rats # <<>>
                     THEN float_div_int(float_sum(rats), Len(rats))
                     ELSE Zero
    IN [units        |-> Len(reps),
        untranslated |-> n_untranslated,
        ascii_heavy  |-> n_ascii_heavy,
        ratio_flags  |-> n_untranslated,
        avg_ratio    |-> Round3(avg_ratio),
        min_ratio    |-> IF rats # <<>> THEN Round3(float_min(rats)) ELSE Zero,
        max_ratio    |-> IF rats # <<>> THEN Round3(float_max(rats)) ELSE Zero]

\* lines 177-186
make_summary(reps, rats, n_untranslated, n_ascii_heavy, n_ratio_flag) ==
    LET avg_ratio == IF rats # <<>>
                     THEN float_div_int(float_sum(rats), Len(rats))
                     ELSE Zero
    IN [units        |-> Len(reps),
        untranslated |-> n_untranslated,
        ascii_heavy  |-> n_ascii_heavy,
        ratio_flags  |-> n_ratio_flag,
        avg_ratio    |-> Round3(avg_ratio),
        min_ratio    |-> IF rats # <<>> THEN Round3(float_min(rats)) ELSE Zero,
        max_ratio    |-> IF rats # <<>> THEN Round3(float_max(rats)) ELSE Zero]

\* lines 136-142: the accumulators are empty and the generator is created
analyze_start ==
    /\ pc = "idle"
    /\ pc' = "analyze"
    /\ units' = iter_yields(root)
    /\ seen' = <<>>
    /\ reports' = <<>>
    /\ ratios' = <<>>
    /\ untranslated_count' = 0
    /\ ascii_heavy_count' = 0
    /\ ratio_flag_count' = 0
    /\ UNCHANGED <<root, min_ratio, max_ratio, ascii_threshold, summary,
                   pair_counts, en_unmatched, ja_unmatched>>

\* lines 142-175: one iteration of the loop
analyze_unit ==
    /\ pc = "analyze"
    /\ units # <<>>
    /\ \E u \in {triple(root, Head(units))} :
       \E ratio \in {unit_ratio(u)} :
       \E r \in {unit_report(u, ratio, min_ratio, max_ratio, ascii_threshold)} :
          /\ untranslated_count' =
                 IF r.untranslated THEN untranslated_count + 1 ELSE untranslated_count
          /\ ascii_heavy_count' =
                 IF r.ascii_heavy THEN ascii_heavy_count + 1 ELSE ascii_heavy_count
          /\ ratio_flag_count' =
                 IF r.ratio_flag THEN ratio_flag_count + 1 ELSE ratio_flag_count
          /\ ratios' = Append(ratios, ratio)
          /\ reports' = Append(reports, r)
    /\ units' = Tail(units)
    /\ seen' = Append(seen, Head(units))
    /\ UNCHANGED <<root, min_ratio, max_ratio, ascii_threshold, pc, summary,
                   pair_counts, en_unmatched, ja_unmatched>>

\* lines 177-187: the generator is exhausted; the summary is built
analyze_finish ==
    /\ pc = "analyze"
    /\ units = <<>>
    /\ summary' = make_summary(reports, ratios, untranslated_count,
                               ascii_heavy_count, ratio_flag_count)
    /\ pc' = "done"
    /\ UNCHANGED <<root, min_ratio, max_ratio, ascii_threshold, units, seen,
                   reports, ratios, untranslated_count, ascii_heavy_count,
                   ratio_flag_count, pair_counts, en_unmatched, ja_unmatched>>

-----------------------------------------------------------------------------
(* Input documents *)

\* <trans-unit id=..><source>src</source><target>tgt</target></trans-unit>
TransUnit(ns, id, src, tgt, depth) ==
    <<El(ns, "trans-unit", id, <<>>, depth),
      El(ns, "source", <<>>, src, depth + 1),
      El(ns, "target", <<>>, tgt, depth + 1)>>

\* <xliff><file> one trans-unit per unit </file></xliff>
FlatDoc(us) ==
    <<El("", "xliff", <<>>, <<>>, 0), El("", "file", <<>>, <<>>, 1)>>
        \o Concat([k \in 1..Len(us) |-> TransUnit("", us[k].id, us[k].src, us[k].tgt, 2)])

Unit(id, src, tgt) == [id |-> id, src |-> src, tgt |-> tgt]

\* a A space * / U+3042
TextAlphabet == {97, 65, 32, 42, 47, 12354}

\* one unit, any source and target over TextAlphabet
TextDocs ==
    {FlatDoc(<<Unit(<<117>>, s, t)>>) :
        s \in StrUpTo(TextAlphabet, MaxLen), t \in StrUpTo(TextAlphabet, MaxLen)}

\* one unit whose source is any text over * / a
MarkupDocs ==
    {FlatDoc(<<Unit(<<117>>, s, <<97>>)>>) : s \in StrUpTo({42, 47, 97}, MaxMarkupLen)}

\* one unit, source and target over a and space
RatioDocs ==
    {FlatDoc(<<Unit(<<117>>, s, t)>>) :
        s \in StrUpTo({97, 32}, MaxRatioLen), t \in StrUpTo({97, 32}, MaxRatioLen)}

\* "", "a", U+3042 newline U+3042
PoolTexts == {<<>>, <<97>>, <<12354, 10, 12354>>}

\* up to MaxUnits units with texts of PoolTexts
MultiDocs ==
    {FlatDoc(us) :
        us \in StrUpTo({Unit(<<117>>, s, t) : s \in PoolTexts, t \in PoolTexts}, MaxUnits)}

\* a trans-unit item: with both children, with only one of them, or with
\* inline markup <source>a<g>g</g>h</source>
TransUnitItem(ns, kind, depth) ==
    <<El(ns, "trans-unit", <<116>>, <<>>, depth)>>
        \o (IF kind = "tgtOnly" THEN <<>>
            ELSE <<El(ns, "source", <<>>, <<97>>, depth + 1)>>)
        \o (IF kind = "inline"
            THEN <<[ns |-> ns, name |-> "g", id |-> <<>>, text |-> <<103>>,
                    tail |-> <<104>>, depth |-> depth + 2]>>
            ELSE <<>>)
        \o (IF kind = "srcOnly" THEN <<>>
            ELSE <<El(ns, "target", <<>>, <<98>>, depth + 1)>>)

\* <segment><source>src</source><target>tgt</target></segment>, or with
\* only one of the two children
Segment(ns, kind, src, tgt, depth) ==
    <<El(ns, "segment", <<>>, <<>>, depth)>>
        \o (IF kind = "tgtOnly" THEN <<>>
            ELSE <<El(ns, "source", <<>>, src, depth + 1)>>)
        \o (IF kind = "srcOnly" THEN <<>>
            ELSE <<El(ns, "target", <<>>, tgt, depth + 1)>>)

\* <unit id="u"><segment>..c..d..</segment></unit>
UnitItem(ns, depth) ==
    <<El(ns, "unit", <<117>>, <<>>, depth)>>
        \o Segment(ns, "both", <<99>>, <<100>>, depth + 1)

ItemSet ==
    {TransUnitItem(ns, kind, 1) :
        ns \in {"", "x"}, kind \in {"both", "srcOnly", "tgtOnly", "inline"}}
      \cup {UnitItem(ns, 1) : ns \in {"", "x"}}

\* documents mixing trans-unit and unit/segment items, with or without
\* namespace
MixedDocs ==
    {<<El("", "xliff", <<>>, <<>>, 0)>> \o Concat(items) :
        items \in StrUpTo(ItemSet, MaxItems)}

\* texts with cased letters outside ASCII: fullwidth SCP and scp, capital
\* I with dot and i followed by a combining dot, Alpha Sigma, alpha with
\* final sigma, alpha sigma
CaseTexts ==
    {<<65331, 65315, 65328>>, <<65363, 65347, 65360>>, <<304>>, <<105, 775>>,
     <<913, 931>>, <<945, 962>>, <<945, 963>>}

\* one unit, source and target of CaseTexts
CaseDocs ==
    {FlatDoc(<<Unit(<<117>>, s, t)>>) : s \in CaseTexts, t \in CaseTexts}

\* one unit whose target/source ratio lies halfway between two multiples of
\* 1/1000: a source of 16 or 80 letters a, a target of 1, 3 or 7
TieDocs ==
    {FlatDoc(<<Unit(<<117>>, [k \in 1..n |-> 97], [k \in 1..m |-> 97])>>) :
        n \in {16, 80}, m \in {1, 3, 7}}

SegKinds == {"both", "srcOnly", "tgtOnly"}

\* a unit with the direct segments ds, followed by a child element
\* (a group, or an inner unit with id "v") that holds the segments ws;
\* segment k carries the texts c<k>, d<k> (direct) or w<k>, x<k> (deep)
SegUnit(ns, id, ds, container, ws) ==
    <<El(ns, "unit", id, <<>>, 1)>>
        \o Concat([k \in 1..Len(ds) |->
                      Segment(ns, ds[k], <<99, 48 + k>>, <<100, 48 + k>>, 2)])
        \o <<El(ns, container, IF container = "unit" THEN <<118>> ELSE <<>>, <<>>, 2)>>
        \o Concat([k \in 1..Len(ws) |->
                      Segment(ns, ws[k], <<119, 48 + k>>, <<120, 48 + k>>, 3)])

\* segmented documents: one top-level unit, with or without namespace and id
SegDocs ==
    {<<El(ns, "xliff", <<>>, <<>>, 0)>> \o SegUnit(ns, id, ds, container, ws) :
        ns \in {"", "x"}, id \in {<<>>, <<117>>},
        ds \in StrUpTo(SegKinds, MaxSegs), container \in {"group", "unit"},
        ws \in StrUpTo(SegKinds, MaxSegs)}

-----------------------------------------------------------------------------
(* The program script/check_translation.py *)

\* the argparse defaults, lines 224-226
DefaultMinRatio == float_div(3, 10)

DefaultMaxRatio == float_div(5, 2)

DefaultAsciiRatio == float_div(7, 10)

\* the values given to --min-ratio and --max-ratio, as decimal fractions
\* <<n, d>>: 0, 0.3, 1, 2.5
ThresholdDecimals == {<<0, 1>>, <<3, 10>>, <<1, 1>>, <<5, 2>>}

\* float(text) of these arguments
FloatOfDecimal == [r \in ThresholdDecimals |-> float_div(r[1], r[2])]

ThresholdValues == {FloatOfDecimal[r] : r \in ThresholdDecimals}

EmptyMap == <<>>

NoSummary == <<>>

InitCommon ==
    /\ pc = "idle"
    /\ units = <<>>
    /\ seen = <<>>
    /\ reports = <<>>
    /\ ratios = <<>>
    /\ untranslated_count = 0
    /\ ascii_heavy_count = 0
    /\ ratio_flag_count = 0
    /\ summary = NoSummary
    /\ pair_counts = EmptyMap
    /\ en_unmatched = EmptyMap
    /\ ja_unmatched = EmptyMap

InitCheck ==
    /\ InitCommon
    /\ ascii_threshold = DefaultAsciiRatio
    /\ \/ /\ root \in TextDocs \cup MarkupDocs \cup CaseDocs \cup TieDocs
                       \cup MultiDocs \cup MixedDocs \cup SegDocs
          /\ min_ratio = DefaultMinRatio
          /\ max_ratio = DefaultMaxRatio
       \/ /\ root \in RatioDocs
          /\ min_ratio \in ThresholdValues
          /\ max_ratio \in ThresholdValues

NextCheck == analyze_start \/ analyze_unit \/ analyze_finish

SpecCheck == InitCheck /\ [][NextCheck]_vars

-----------------------------------------------------------------------------
(* script/extract_glossary.py: candidate tokens *)

Upper == 65..90

Lower == 97..122

\* \d of a str pattern: the code points of category Nd, as ranges
DigitRuns ==
    {
     <<48, 57>>, <<1632, 1641>>, <<1776, 1785>>, <<1984, 1993>>,
     <<2406, 2415>>, <<2534, 2543>>, <<2662, 2671>>, <<2790, 2799>>,
     <<2918, 2927>>, <<3046, 3055>>, <<3174, 3183>>, <<3302, 3311>>,
     <<3430, 3439>>, <<3558, 3567>>, <<3664, 3673>>, <<3792, 3801>>,
     <<3872, 3881>>, <<4160, 4169>>, <<4240, 4249>>, <<6112, 6121>>,
     <<6160, 6169>>, <<6470, 6479>>, <<6608, 6617>>, <<6784, 6793>>,
     <<6800, 6809>>, <<6992, 7001>>, <<7088, 7097>>, <<7232, 7241>>,
     <<7248, 7257>>, <<42528, 42537>>, <<43216, 43225>>, <<43264, 43273>>,
     <<43472, 43481>>, <<43504, 43513>>, <<43600, 43609>>, <<44016, 44025>>,
     <<65296, 65305>>, <<66720, 66729>>, <<68912, 68921>>, <<69734, 69743>>,
     <<69872, 69881>>, <<69942, 69951>>, <<70096, 70105>>, <<70384, 70393>>,
     <<70736, 70745>>, <<70864, 70873>>, <<71248, 71257>>, <<71360, 71369>>,
     <<71472, 71481>>, <<71904, 71913>>, <<72016, 72025>>, <<72784, 72793>>,
     <<73040, 73049>>, <<73120, 73129>>, <<92768, 92777>>, <<92864, 92873>>,
     <<93008, 93017>>, <<120782, 120831>>, <<123200, 123209>>,
     <<123632, 123641>>, <<125264, 125273>>, <<130032, 130041>>}

Digit == UNION {r[1]..r[2] : r \in DigitRuns}

\* [\u30A1-\u30FA\u30FC]
Katakana == (12449..12538) \cup {12540}

\* [\u4E00-\u9FFF]
Kanji == 19968..40959

\* [\u3040-\u309F]
Hiragana == 12352..12447

\* how many characters of text from position p on belong to class S
RECURSIVE RunLen(_, _, _)
RunLen(text, p, S) ==
    IF p <= Len(text) /\ text[p] \in S THEN 1 + RunLen(text, p + 1, S) ELSE 0

\* [A-Z][a-z]+ at p: its length, 0 when it does not match
CapWord(text, p) ==
    IF p <= Len(text) /\ text[p] \in Upper /\ RunLen(text, p + 1, Lower) >= 1
    THEN 1 + RunLen(text, p + 1, Lower) ELSE 0

\* the alternatives of EN_TOKEN_RE, line 47: the length each matches at p
\* (0: no match)
\* SCP
EnAlt1(text, p) ==
    IF p + 2 <= Len(text) /\ SubSeq(text, p, p + 2) = <<83, 67, 80>> THEN 3 ELSE 0

\* [A-Z][a-z]+(?:-[A-Z][a-z]+)?
EnAlt2(text, p) ==
    LET w == CapWord(text, p)
        q == p + w
    IN IF w = 0 THEN 0
       ELSE IF q <= Len(text) /\ text[q] = 45 /\ CapWord(text, q + 1) > 0
            THEN w + 1 + CapWord(text, q + 1)
            ELSE w

\* [A-Z]{2,}
EnAlt3(text, p) ==
    IF RunLen(text, p, Upper) >= 2 THEN RunLen(text, p, Upper) ELSE 0

\* [A-Z][a-z]+[A-Z][a-z]+
EnAlt4(text, p) ==
    LET w == CapWord(text, p)
    IN IF w > 0 /\ CapWord(text, p + w) > 0 THEN w + CapWord(text, p + w) ELSE 0

\* [A-Z][a-z]+\d+
EnAlt5(text, p) ==
    LET w == CapWord(text, p)
    IN IF w > 0 /\ RunLen(text, p + w, Digit) >= 1
       THEN w + RunLen(text, p + w, Digit) ELSE 0

\* the first alternative that matches wins
EN_TOKEN_RE(text, p) ==
    LET a1 == EnAlt1(text, p)
        a2 == EnAlt2(text, p)
        a3 == EnAlt3(text, p)
        a4 == EnAlt4(text, p)
    IN IF a1 > 0 THEN a1
       ELSE IF a2 > 0 THEN a2
       ELSE IF a3 > 0 THEN a3
       ELSE IF a4 > 0 THEN a4
       ELSE EnAlt5(text, p)

\* the alternatives of JA_TOKEN_RE, line 49
\* [\u30A1-\u30FA\u30FC]{2,}
JaAlt1(text, p) ==
    IF RunLen(text, p, Katakana) >= 2 THEN RunLen(text, p, Katakana) ELSE 0

\* [\u4E00-\u9FFF]+[\u30A1-\u30FA\u30FC]*
JaAlt2(text, p) ==
    LET n == RunLen(text, p, Kanji)
    IN IF n >= 1 THEN n + RunLen(text, p + n, Katakana) ELSE 0

\* [\u4E00-\u9FFF]{2,}
JaAlt3(text, p) ==
    IF RunLen(text, p, Kanji) >= 2 THEN RunLen(text, p, Kanji) ELSE 0

JA_TOKEN_RE(text, p) ==
    LET a1 == JaAlt1(text, p)
        a2 == JaAlt2(text, p)
    IN IF a1 > 0 THEN a1
       ELSE IF a2 > 0 THEN a2
       ELSE JaAlt3(text, p)

\* HIRAGANA_RE.match(tok), line 50: ^[\u3040-\u309F]+$ matches a run of
\* hiragana that ends tok, or that ends right before a final newline of tok
HIRAGANA_RE(tok) ==
    LET n == RunLen(tok, 1, Hiragana)
    IN n >= 1 /\ (n = Len(tok) \/ (n = Len(tok) - 1 /\ tok[Len(tok)] = 10))

\* re.finditer: the non-overlapping matches from position p on, left to right
RECURSIVE en_finditer(_, _)
en_finditer(text, p) ==
    IF p > Len(text) THEN <<>>
    ELSE LET n == EN_TOKEN_RE(text, p)
         IN IF n > 0 THEN <<SubSeq(text, p, p + n - 1)>> \o en_finditer(text, p + n)
            ELSE en_finditer(text, p + 1)

RECURSIVE ja_finditer(_, _)
ja_finditer(text, p) ==
    IF p > Len(text) THEN <<>>
    ELSE LET n == JA_TOKEN_RE(text, p)
         IN IF n > 0 THEN <<SubSeq(text, p, p + n - 1)>> \o ja_finditer(text, p + n)
            ELSE ja_finditer(text, p + 1)

\* tok.strip('-')
RECURSIVE strip_hyphen(_)
strip_hyphen(tok) ==
    IF tok # <<>> /\ tok[1] = 45 THEN strip_hyphen(Tail(tok))
    ELSE IF tok # <<>> /\ tok[Len(tok)] = 45
         THEN strip_hyphen(SubSeq(tok, 1, Len(tok) - 1))
         ELSE tok

\* list(dict.fromkeys(cands)): the first occurrence of each, in order
RECURSIVE dedupe(_)
dedupe(cands) ==
    IF cands = <<>> THEN <<>>
    ELSE LET rest == dedupe(SubSeq(cands, 1, Len(cands) - 1))
             last == cands[Len(cands)]
         IN IF \E k \in 1..Len(rest) : rest[k] = last THEN rest
            ELSE Append(rest, last)

\* lines 52-54
EN_STOP ==
    {<<84, 104, 101>>, <<65>>, <<65, 110>>, <<65, 110, 100>>, <<79, 114>>,
     <<66, 117, 116>>, <<73, 102>>, <<79, 102>>, <<70, 111, 114>>,
     <<84, 111>>, <<73, 110>>, <<79, 110>>, <<65, 116>>, <<73, 116>>,
     <<89, 111, 117>>, <<73>>, <<87, 101>>, <<72, 101>>, <<83, 104, 101>>,
     <<84, 104, 101, 121>>, <<84, 104, 101, 109>>, <<73, 115>>,
     <<65, 114, 101>>, <<65, 109>>, <<66, 101>>, <<66, 101, 101, 110>>,
     <<87, 97, 115>>, <<87, 101, 114, 101>>, <<84, 104, 105, 115>>,
     <<84, 104, 97, 116>>, <<84, 104, 101, 115, 101>>,
     <<84, 104, 111, 115, 101>>, <<77, 121>>, <<89, 111, 117, 114>>,
     <<79, 117, 114>>, <<84, 104, 101, 105, 114>>, <<87, 105, 116, 104>>,
     <<65, 115>>, <<78, 111, 116>>, <<72, 97, 118, 101>>, <<72, 97, 115>>,
     <<72, 97, 100>>, <<87, 105, 108, 108>>, <<67, 97, 110>>, <<68, 111>>,
     <<68, 105, 100>>, <<83, 111>>, <<65, 108, 108>>, <<65, 110, 121>>}

\* variant: the stop list is not applied
extract_en_unfiltered(text) ==
    LET toks == en_finditer(text, 1)
        stripped == [k \in 1..Len(toks) |-> strip_hyphen(toks[k])]
    IN dedupe(SelectSeq(stripped, LAMBDA tok : ~(Len(tok) < 2)))

\* lines 78-87
extract_en(text) ==
    LET toks == en_finditer(text, 1)
        stripped == [k \in 1..Len(toks) |-> strip_hyphen(toks[k])]
    IN dedupe(SelectSeq(stripped, LAMBDA tok : ~(Len(tok) < 2) /\ tok \notin EN_STOP))

\* lines 90-99
extract_ja(text) ==
    dedupe(SelectSeq(ja_finditer(text, 1),
                     LAMBDA tok : ~HIRAGANA_RE(tok) /\ ~(Len(tok) < 2)))

-----------------------------------------------------------------------------
(* script/extract_glossary.py: build_glossary *)

Range(f) == {f[k] : k \in DOMAIN f}

\* variant: the id replaces the ids recorded so far
add_pair_overwrite(pairs, en, ja, id) ==
    LET key == <<en, ja>>
        old == IF key \in DOMAIN pairs THEN pairs[key]
               ELSE [src |-> en, tgt |-> ja, count |-> 0, ids |-> {}]
        new == [old EXCEPT !.count = old.count + 1, !.ids = {id}]
    IN [k \in DOMAIN pairs \cup {key} |-> IF k = key THEN new ELSE pairs[k]]

\* lines 111-115: pair_counts[key] is created with count 0 when missing,
\* then its count is incremented and the id added
add_pair(pairs, en, ja, id) ==
    LET key == <<en, ja>>
        old == IF key \in DOMAIN pairs THEN pairs[key]
               ELSE [src |-> en, tgt |-> ja, count |-> 0, ids |-> {}]
        new == [old EXCEPT !.count = old.count + 1, !.ids = old.ids \cup {id}]
    IN [k \in DOMAIN pairs \cup {key} |-> IF k = key THEN new ELSE pairs[k]]

\* lines 117-120: for t in terms: unmatched[t].add(_id)
add_unmatched(unmatched, terms, id) ==
    [t \in DOMAIN unmatched \cup Range(terms) |->
        (IF t \in DOMAIN unmatched THEN unmatched[t] ELSE {})
            \cup (IF t \in Range(terms) THEN {id} ELSE {})]

\* variant: a pair is made as soon as the source side has one candidate
glossary_step_source_only(acc, u) ==
    LET en_terms == extract_en(u.src)
        ja_terms == extract_ja(u.tgt)
    IN IF Len(en_terms) = 1 /\ Len(ja_terms) >= 1
       THEN [acc EXCEPT !.pairs = add_pair(acc.pairs, en_terms[1], ja_terms[1], u.id)]
       ELSE [acc EXCEPT !.en = add_unmatched(acc.en, en_terms, u.id),
                        !.ja = add_unmatched(acc.ja, ja_terms, u.id)]

\* lines 108-120: the loop body, on the accumulators acc
glossary_step(acc, u) ==
    LET en_terms == extract_en(u.src)
        ja_terms == extract_ja(u.tgt)
    IN IF Len(en_terms) = 1 /\ Len(ja_terms) = 1
       THEN [acc EXCEPT !.pairs = add_pair(acc.pairs, en_terms[1], ja_terms[1], u.id)]
       ELSE [acc EXCEPT !.en = add_unmatched(acc.en, en_terms, u.id),
                        !.ja = add_unmatched(acc.ja, ja_terms, u.id)]

\* lines 103-107: the accumulators are empty and the generator is created
glossary_start ==
    /\ pc = "idle"
    /\ pc' = "glossary"
    /\ units' = glossary_iter_yields(root)
    /\ seen' = <<>>
    /\ pair_counts' = EmptyMap
    /\ en_unmatched' = EmptyMap
    /\ ja_unmatched' = EmptyMap
    /\ UNCHANGED <<root, min_ratio, max_ratio, ascii_threshold, reports, ratios,
                   untranslated_count, ascii_heavy_count, ratio_flag_count,
                   summary>>

\* lines 107-120: one iteration of the loop
glossary_unit ==
    /\ pc = "glossary"
    /\ units # <<>>
    /\ LET acc == glossary_step([pairs |-> pair_counts, en |-> en_unmatched,
                                 ja |-> ja_unmatched], triple(root, Head(units)))
       IN /\ pair_counts' = acc.pairs
          /\ en_unmatched' = acc.en
          /\ ja_unmatched' = acc.ja
    /\ units' = Tail(units)
    /\ seen' = Append(seen, Head(units))
    /\ UNCHANGED <<root, min_ratio, max_ratio, ascii_threshold, pc, reports,
                   ratios, untranslated_count, ascii_heavy_count,
                   ratio_flag_count, summary>>

\* line 122: the generator is exhausted; the three maps are returned
glossary_finish ==
    /\ pc = "glossary"
    /\ units = <<>>
    /\ pc' = "done"
    /\ UNCHANGED <<root, min_ratio, max_ratio, ascii_threshold, units, seen,
                   reports, ratios, untranslated_count, ascii_heavy_count,
                   ratio_flag_count, summary, pair_counts, en_unmatched,
                   ja_unmatched>>

\* build_glossary on a list of units: the loop body folded over the list
RECURSIVE build_glossary(_)
build_glossary(us) ==
    IF us = <<>> THEN [pairs |-> EmptyMap, en |-> EmptyMap, ja |-> EmptyMap]
    ELSE glossary_step(build_glossary(SubSeq(us, 1, Len(us) - 1)), us[Len(us)])

-----------------------------------------------------------------------------
(* The program script/extract_glossary.py *)

\* "The Foundation studies SCP-999"
Scenario3Source ==
    <<84, 104, 101, 32, 70, 111, 117, 110, 100, 97, 116, 105, 111, 110, 32,
      115, 116, 117, 100, 105, 101, 115, 32, 83, 67, 80, 45, 57, 57, 57>>

\* U+30AB (katakana), U+6F22 (kanji), U+3042 (hiragana), space
JaAlphabet == {12459, 28450, 12354, 32}

\* one unit: a source of Scenario3Source or "Site", any target over JaAlphabet
JaDocs ==
    {FlatDoc(<<Unit(<<117>>, s, t)>>) :
        s \in {Scenario3Source, <<83, 105, 116, 101>>},
        t \in StrUpTo(JaAlphabet, MaxJaLen)}

\* one unit: any source over A a 1 -, the target U+30AB U+30AB
TokDocs ==
    {FlatDoc(<<Unit(<<117>>, s, <<12459, 12459>>)>>) :
        s \in StrUpTo({65, 97, 49, 45}, MaxTokLen)}

\* "Site", "SCP", "Site SCP"
PoolSources ==
    {<<83, 105, 116, 101>>, <<83, 67, 80>>, <<83, 105, 116, 101, 32, 83, 67, 80>>}

\* U+30AB U+30AB, and U+30AB U+30AB space U+6F22 U+5B57
PoolTargets == {<<12459, 12459>>, <<12459, 12459, 32, 28450, 23383>>}

\* up to MaxUnits units with the pool texts and the ids "u", "v"
GlossaryMultiDocs ==
    {FlatDoc(us) :
        us \in StrUpTo({Unit(id, s, t) :
                           id \in {<<117>>, <<118>>}, s \in PoolSources, t \in PoolTargets},
                       MaxUnits)}

\* "PowerShell", "Site19"
CompoundSources ==
    {<<80, 111, 119, 101, 114, 83, 104, 101, 108, 108>>,
     <<83, 105, 116, 101, 49, 57>>}

\* one unit: a source of CompoundSources, the target U+30AB U+30AB
CompoundDocs ==
    {FlatDoc(<<Unit(<<117>>, s, <<12459, 12459>>)>>) : s \in CompoundSources}

InitGlossary ==
    /\ InitCommon
    /\ min_ratio = DefaultMinRatio
    /\ max_ratio = DefaultMaxRatio
    /\ ascii_threshold = DefaultAsciiRatio
    /\ root \in JaDocs \cup TokDocs \cup CompoundDocs \cup GlossaryMultiDocs
                 \cup MixedDocs \cup SegDocs

NextGlossary == glossary_start \/ glossary_unit \/ glossary_finish

SpecGlossary == InitGlossary /\ [][NextGlossary]_vars

-----------------------------------------------------------------------------
(* Properties *)

\* the units the running loop has iterated over so far
Seen == triples(root, seen)

\* s contains pat as a substring
HasSub(s, pat) ==
    \E k \in 1..(Len(s) - Len(pat) + 1) : SubSeq(s, k, k + Len(pat) - 1) = pat

\* the bijections of 1..n
Perms(n) == {f \in [1..n -> 1..n] : \A a, b \in 1..n : f[a] = f[b] => a = b}

\* C1: when build_glossary has finished, the units it iterated over are the
\* sequence of units that analyze iterates over for the same document
\* (for a segmented document with N complete segments: N units).
C1_SameUnitSequence == pc = "done" => Seen = iter_units(root)

\* C2: in a document that holds an element with local name trans-unit, in
\* any namespace, every unit delivered to analyze is taken from a
\* trans-unit element, never from a segment.
C2_ShapeAPriority ==
    (\E i \in 1..Len(root) : _local(root[i]) = "trans-unit")
        => \A k \in 1..Len(seen) : _local(root[seen[k].el]) = "trans-unit"

\* C3: the accumulators of build_glossary are exactly what the units seen so
\* far dictate: a unit with one source candidate and one target candidate
\* counts once for the pair of the two and adds its id to that pair, and
\* contributes to no unmatched bin; every other unit contributes each of its
\* candidates, with its id, to the unmatched bin of its side, and to no pair.
C3_Alignment ==
    pc \in {"glossary", "done"} =>
        LET us     == Seen
            en(k)  == extract_en(us[k].src)
            ja(k)  == extract_ja(us[k].tgt)
            P      == {k \in 1..Len(us) : Len(en(k)) = 1 /\ Len(ja(k)) = 1}
            N      == (1..Len(us)) \ P
            key(k) == <<en(k)[1], ja(k)[1]>>
        IN /\ DOMAIN pair_counts = {key(k) : k \in P}
           /\ \A q \in DOMAIN pair_counts :
                 /\ pair_counts[q].src = q[1]
                 /\ pair_counts[q].tgt = q[2]
                 /\ pair_counts[q].count = Cardinality({k \in P : key(k) = q})
                 /\ pair_counts[q].ids = {us[k].id : k \in {j \in P : key(j) = q}}
           /\ DOMAIN en_unmatched = UNION {Range(en(k)) : k \in N}
           /\ \A t \in DOMAIN en_unmatched :
                 en_unmatched[t] = {us[k].id : k \in {j \in N : t \in Range(en(j))}}
           /\ DOMAIN ja_unmatched = UNION {Range(ja(k)) : k \in N}
           /\ \A t \in DOMAIN ja_unmatched :
                 ja_unmatched[t] = {us[k].id : k \in {j \in N : t \in Range(ja(j))}}

\* a pair has been recorded, and a unit with two source candidates and one
\* target candidate has put its target candidate into the unmatched bin
C3_Witness ==
    /\ pc = "done"
    /\ DOMAIN pair_counts # {}
    /\ \E k \in 1..Len(seen) :
          /\ Len(extract_en(Seen[k].src)) = 2
          /\ Len(extract_ja(Seen[k].tgt)) = 1
          /\ extract_ja(Seen[k].tgt)[1] \in DOMAIN ja_unmatched
          /\ Seen[k].id \in ja_unmatched[extract_ja(Seen[k].tgt)[1]]

\* C4: the result of build_glossary is the same for every order of the
\* units: the same pair keys with the same count and ids, the same
\* unmatched maps.
C4_Commutative ==
    pc = "done" =>
        \A f \in Perms(Len(seen)) :
            build_glossary([k \in 1..Len(seen) |-> Seen[f[k]]])
                = [pairs |-> pair_counts, en |-> en_unmatched, ja |-> ja_unmatched]

\* three units were processed: a pair counted twice, from units with two
\* different ids, and an unmatched source term
C4_Witness ==
    /\ pc = "done"
    /\ Len(seen) = 3
    /\ \E q \in DOMAIN pair_counts :
          pair_counts[q].count = 2 /\ Cardinality(pair_counts[q].ids) = 2
    /\ DOMAIN en_unmatched # {}

\* the target holds exactly one katakana run, of length >= 2, and no kanji
\* or hiragana
OneKatakanaRun(t) ==
    LET starts == {k \in 1..Len(t) :
                      t[k] \in Katakana /\ (k = 1 \/ t[k - 1] \notin Katakana)}
    IN /\ \A k \in 1..Len(t) : t[k] \notin Kanji /\ t[k] \notin Hiragana
       /\ Cardinality(starts) = 1
       /\ \A k \in starts : RunLen(t, k, Katakana) >= 2

\* the katakana run of such a target
TheKatakanaRun(t) ==
    LET k == CHOOSE j \in 1..Len(t) :
                 t[j] \in Katakana /\ (j = 1 \/ t[j - 1] \notin Katakana)
    IN SubSeq(t, k, k + RunLen(t, k, Katakana) - 1)

\* build_glossary has finished on the single unit of scenario 3
Scenario3 ==
    /\ pc = "done"
    /\ Len(seen) = 1
    /\ Seen[1].src = Scenario3Source
    /\ OneKatakanaRun(Seen[1].tgt)

\* C5 as stated: scenario 3 records exactly one Pair, with count 1 and the
\* unit id, and nothing in the unmatched bins.
C5_Scenario3Pair ==
    Scenario3 =>
        /\ Cardinality(DOMAIN pair_counts) = 1
        /\ \A q \in DOMAIN pair_counts :
              pair_counts[q].count = 1 /\ pair_counts[q].ids = {Seen[1].id}
        /\ DOMAIN en_unmatched = {}
        /\ DOMAIN ja_unmatched = {}

\* C5 amended: scenario 3 records no Pair: the source has the two candidates
\* "Foundation" and "SCP", which go to the unmatched source bin with the
\* unit id, and the katakana run goes to the unmatched target bin.
C5_Scenario3Unmatched ==
    Scenario3 =>
        /\ DOMAIN pair_counts = {}
        /\ DOMAIN en_unmatched =
               {<<70, 111, 117, 110, 100, 97, 116, 105, 111, 110>>, <<83, 67, 80>>}
        /\ \A t \in DOMAIN en_unmatched : en_unmatched[t] = {Seen[1].id}
        /\ DOMAIN ja_unmatched = {TheKatakanaRun(Seen[1].tgt)}
        /\ \A t \in DOMAIN ja_unmatched : ja_unmatched[t] = {Seen[1].id}

C5_Witness == Scenario3

\* C6: a report is flagged untranslated exactly when the normalized cleaned
\* source equals the normalized cleaned target and is not empty; a unit
\* whose cleaned texts have no visible character is never flagged.
C6_Untranslated ==
    \A k \in 1..Len(reports) :
        LET src_clean == strip_markup(Seen[k].src)
            tgt_clean == strip_markup(Seen[k].tgt)
        IN /\ reports[k].untranslated <=>
                 /\ normalize_text(src_clean) = normalize_text(tgt_clean)
                 /\ normalize_text(src_clean) # <<>>
           /\ char_len(src_clean) = 0 /\ char_len(tgt_clean) = 0
                 => ~reports[k].untranslated

\* a unit is flagged although its source and target texts differ
C6_Witness ==
    \E k \in 1..Len(reports) :
        reports[k].untranslated /\ Seen[k].src # Seen[k].tgt

\* C7: the divisor of the ratio is never 0; for min_ratio <= max_ratio the
\* ratio flag is set exactly when t < min_ratio * s or t > max_ratio * s,
\* with t the visible length of the cleaned target and s the visible length
\* of the cleaned source floored to 1; a source without visible character
\* gives the ratio t.
C7_RatioFlag ==
    \A k \in 1..Len(reports) :
        LET t == char_len(strip_markup(Seen[k].tgt))
            v == char_len(strip_markup(Seen[k].src))
            s == Max(v, 1)
            lo == CHOOSE r \in ThresholdDecimals : FloatOfDecimal[r] = min_ratio
            hi == CHOOSE r \in ThresholdDecimals : FloatOfDecimal[r] = max_ratio
        IN /\ reports[k].source_chars # 0
           /\ ratios[k] = float_div(t, s)
           /\ lo[1] * hi[2] <= hi[1] * lo[2] =>
                 (reports[k].ratio_flag <=>
                     \/ t * lo[2] < lo[1] * s
                     \/ t * hi[2] > hi[1] * s)
           /\ v = 0 => ratios[k] = float_div(t, 1)

\* a source without visible character, a target of three: ratio 3, flagged
C7_Witness ==
    \E k \in 1..Len(reports) :
        /\ char_len(strip_markup(Seen[k].src)) = 0
        /\ char_len(strip_markup(Seen[k].tgt)) = 3
        /\ ratios[k] = float_div(3, 1)
        /\ reports[k].ratio_flag

\* C8 as stated: the cleaned text of a unit contains neither ** nor //.
C8_NoMarkers ==
    \A k \in 1..Len(seen) :
        \A s \in {Seen[k].src, Seen[k].tgt} :
            /\ ~HasSub(strip_markup(s), <<42, 42>>)
            /\ ~HasSub(strip_markup(s), <<47, 47>>)

\* C8 amended: the cleaned text never contains //; it contains ** only
\* where the text left by the ** pass has an asterisk followed by //, whose
\* removal joins two asterisks.
C8_NoSlashes ==
    \A k \in 1..Len(seen) :
        \A s \in {Seen[k].src, Seen[k].tgt} :
            /\ ~HasSub(strip_markup(s), <<47, 47>>)
            /\ HasSub(strip_markup(s), <<42, 42>>)
                  => HasSub(strip_stars(s), <<42, 47, 47>>)

\* a unit whose cleaned source contains **
C8_Witness ==
    \E k \in 1..Len(seen) : HasSub(strip_markup(Seen[k].src), <<42, 42>>)

\* C9: a report made for a segment of a unit carries the unit's id when the
\* unit has exactly one segment, and otherwise the unit's id, a colon and
\* the 1-based position of the segment among the unit's segments (its
\* children named segment, or without any, the segments below it), the
\* skipped segments counted.
C9_SegmentIds ==
    \A k \in 1..Len(reports) :
        LET unit == seen[k].owner
        IN _local(root[unit]) = "unit" =>
             LET below  == {c \in Descendants(root, unit) : _local(root[c]) = "segment"}
                 direct == {c \in below : root[c].depth = root[unit].depth + 1}
                 segs   == IF direct # {} THEN direct ELSE below
                 pos    == Cardinality({c \in segs : c <= seen[k].el})
             IN reports[k].id =
                    IF Cardinality(segs) = 1 THEN root[unit].id
                    ELSE root[unit].id \o <<58>> \o Decimal(pos)

\* the first report is made for the second segment of unit "u": the first
\* segment was skipped
C9_Witness ==
    /\ Len(reports) >= 1
    /\ _local(root[seen[1].owner]) = "unit"
    /\ reports[1].id = <<117, 58, 50>>

\* the number of reports with each flag
UntranslatedReports == Cardinality({k \in 1..Len(reports) : reports[k].untranslated})

AsciiHeavyReports == Cardinality({k \in 1..Len(reports) : reports[k].ascii_heavy})

RatioFlagReports == Cardinality({k \in 1..Len(reports) : reports[k].ratio_flag})

\* C10: the counters equal the number of reports with the flag; the
\* returned Summary holds the number of reports and these counts; a
\* document without units gives no report and a Summary of zeros.
C10_SummaryFaithful ==
    /\ untranslated_count = UntranslatedReports
    /\ ascii_heavy_count = AsciiHeavyReports
    /\ ratio_flag_count = RatioFlagReports
    /\ pc = "done" =>
          /\ Len(reports) = Len(iter_units(root))
          /\ summary.units = Len(reports)
          /\ summary.untranslated = UntranslatedReports
          /\ summary.ascii_heavy = AsciiHeavyReports
          /\ summary.ratio_flags = RatioFlagReports
          /\ summary.untranslated <= summary.units
          /\ summary.ascii_heavy <= summary.units
          /\ summary.ratio_flags <= summary.units
    /\ pc = "done" /\ iter_units(root) = <<>> =>
          /\ reports = <<>>
          /\ summary = [units |-> 0, untranslated |-> 0, ascii_heavy |-> 0,
                        ratio_flags |-> 0, avg_ratio |-> Zero,
                        min_ratio |-> Zero, max_ratio |-> Zero]

\* three units: one untranslated, one ascii-heavy, two with a ratio flag
C10_Witness ==
    /\ pc = "done"
    /\ summary.units = 3
    /\ summary.untranslated = 1
    /\ summary.ascii_heavy = 1
    /\ summary.ratio_flags = 2

\* C11: the source_chars of every report is the number of non-whitespace
\* characters of the unit's cleaned source text and target_chars that of its
\* cleaned target text; a cleaned source without visible character gives
\* source_chars = 0.
C11_VisibleCounts ==
    \A k \in 1..Len(reports) :
        /\ reports[k].source_chars = char_len(strip_markup(Seen[k].src))
        /\ reports[k].target_chars = char_len(strip_markup(Seen[k].tgt))
        /\ char_len(strip_markup(Seen[k].src)) = 0 => reports[k].source_chars = 0

\* s is a CamelCase compound of two capitalized words: an uppercase letter,
\* lowercase letters, an uppercase letter, lowercase letters
CamelCompound(s) ==
    \E i \in 2..(Len(s) - 2) :
        /\ s[1] \in Upper
        /\ \A j \in 2..i : s[j] \in Lower
        /\ s[i + 1] \in Upper
        /\ \A j \in (i + 2)..Len(s) : s[j] \in Lower

\* s is a capitalized word immediately followed by digits
WordWithDigits(s) ==
    \E i \in 2..(Len(s) - 1) :
        /\ s[1] \in Upper
        /\ \A j \in 2..i : s[j] \in Lower
        /\ \A j \in (i + 1)..Len(s) : s[j] \in Digit

\* the source candidates build_glossary has recorded, paired or unmatched
RecordedSourceTerms == {q[1] : q \in DOMAIN pair_counts} \cup DOMAIN en_unmatched

\* C12: for a source text that is a CamelCase compound of two capitalized
\* words, or a capitalized word immediately followed by digits, extract_en
\* returns the whole text as its single candidate, and that candidate is
\* the source term build_glossary records for the unit.
C12_EveryAlternative ==
    \A k \in 1..Len(seen) :
        LET s == Seen[k].src
        IN CamelCompound(s) \/ WordWithDigits(s) =>
              /\ extract_en(s) = <<s>>
              /\ s \in RecordedSourceTerms

\* the segment elements of the document that have a source and a target
\* child
CompleteSegments ==
    {c \in 1..Len(root) :
        /\ _local(root[c]) = "segment"
        /\ \E a \in Range(Children(root, c)) : _local(root[a]) = "source"
        /\ \E b \in Range(Children(root, c)) : _local(root[b]) = "target"}

\* how many of the units delivered to analyze were made for element c
TimesYielded(c) == Cardinality({k \in 1..Len(seen) : seen[k].el = c})

\* C13: when analyze has finished on a document read as Shape B (no
\* trans-unit was found), every segment element with a source and a target
\* child has been delivered exactly once, whatever the tree: units nested
\* in units, segments found only by the search below the unit.
C13_EachSegmentOnce ==
    pc = "done" /\ findall(root, "trans-unit") = <<>> =>
        \A c \in CompleteSegments : TimesYielded(c) = 1

====
